---------------------------- MODULE Spec2Model ----------------------------
(***************************************************************************)
(* A model of two subsystems of mayastor:                                  *)
(*   - the nexus child state machine                                       *)
(*       (mayastor/src/bdev/nexus/nexus_child.rs)                          *)
(*   - the snapshot / clone engine of the lvol store                       *)
(*       (io-engine/src/lvs/lvol_snapshot.rs)                              *)
(*   - the bridge to the tokio runtime (io-engine/src/core/runtime.rs)     *)
(* Each subsystem has its own specifications over the shared variables;    *)
(* the variables of the other subsystems stay at their initial value.      *)
(***************************************************************************)
EXTENDS Integers, FiniteSets, Sequences, TLC

VARIABLES
    child,       \* the NexusChild struct
    statusFile,  \* the child state last written by ChildStatusConfig::save
    clast,       \* the last child operation: what was called, on what, its result
    nextDesc,    \* the identity the next descriptor opened by Bdev::open_by_name gets
    aborted,     \* the process has panicked (a failed assert or unwrap)
    bdevs,       \* uuids of the lvols present in the bdev registry
    blob,        \* per uuid: what the blobstore holds for the lvol
    reqs,        \* backend calls submitted and not yet completed
    sweep,       \* the running destroy_pending_discarded_snapshot, if any
    ldone,       \* the last snapshot-engine call that returned (or panicked)
    nvmf,        \* per remote request handle: how it was completed
    cstrs,       \* the creation calls whose Vec<CString> of xattr buffers is alive
    rt           \* per caller of spawn_await: the caller, its task, its channel

childVars == <<child, statusFile, clast, nextDesc>>
lvsVars == <<bdevs, blob, reqs, sweep, ldone, nvmf>>
rtVars == <<cstrs, rt>>
vars ==
    <<child, statusFile, clast, nextDesc, aborted, bdevs, blob, reqs, sweep, ldone, nvmf,
      cstrs, rt>>

\* Option<T>::None, for options of strings
None == "<None>"

(***************************************************************************)
(* Bounds of the model                                                     *)
(***************************************************************************)
\* sizes of the backing device and of the nexus range over 1..MaxSize
MaxSize == 2
\* descriptors opened during one run
MaxOpens == 3

(***************************************************************************)
(*                    NEXUS CHILD  (nexus_child.rs)                        *)
(***************************************************************************)
Reason == {"Unknown", "OutOfSync", "CantOpen", "RebuildFailed", "IoError", "Rpc"}

Init_ == [tag |-> "Init", reason |-> None]
ConfigInvalid == [tag |-> "ConfigInvalid", reason |-> None]
Open == [tag |-> "Open", reason |-> None]
Closed == [tag |-> "Closed", reason |-> None]
Faulted(r) == [tag |-> "Faulted", reason |-> r]

ChildState == {Init_, ConfigInvalid, Open, Closed} \cup {Faulted(r) : r \in Reason}

\* desc and bdev_handle hold the identity of the descriptor (0: None);
\* bdev is the size in bytes of the backing Bdev (0: None)
new(bdev) ==
    [bdev |-> bdev, desc |-> 0, state |-> Init_, bdev_handle |-> 0, err_store |-> FALSE]

\* mutant: the assignment of the state is lost
set_state_drop(c, state) == c

set_state(c, state) == [c EXCEPT !.state = state]

state(c) == c.state

\* results of the child operations
Ok == [tag |-> "Ok", child_size |-> 0, parent_size |-> 0]
Err(e) == [tag |-> e, child_size |-> 0, parent_size |-> 0]
ChildTooSmall(cs, ps) == [tag |-> "ChildTooSmall", child_size |-> cs, parent_size |-> ps]
Panic == [tag |-> "panic", child_size |-> 0, parent_size |-> 0]

\* what the environment decides during an open: the outcome of Bdev::open_by_name
\* and of BdevHandle::try_from, the fresh descriptor, the err_store option
OpenEnv ==
    [open_by_name : {"ok", "err"}, handle : {"ok", "err"}, enable_err_store : BOOLEAN]

\* mutant: a faulted child is opened like any other
open_faulted_too(c, parent_size, env, id) ==
    IF c.bdev = 0 THEN [child |-> c, res |-> Panic]
    ELSE IF parent_size > c.bdev
    THEN [child |-> set_state(c, ConfigInvalid), res |-> ChildTooSmall(c.bdev, parent_size)]
    ELSE IF env.open_by_name = "err"
    THEN [child |-> set_state(c, Faulted("CantOpen")), res |-> Err("OpenChild")]
    ELSE IF env.handle = "err" THEN [child |-> c, res |-> Panic]
    ELSE [child |-> set_state([c EXCEPT !.bdev_handle = id, !.desc = id,
                                        !.err_store = IF env.enable_err_store THEN TRUE ELSE @],
                              Open),
          res |-> Ok]

open(c, parent_size, env, id) ==
    IF state(c).tag = "Faulted" THEN [child |-> c, res |-> Err("ChildFaulted")]
    ELSE IF c.bdev = 0 THEN [child |-> c, res |-> Panic]
    ELSE IF parent_size > c.bdev
    THEN [child |-> set_state(c, ConfigInvalid), res |-> ChildTooSmall(c.bdev, parent_size)]
    ELSE IF env.open_by_name = "err"
    THEN [child |-> set_state(c, Faulted("CantOpen")), res |-> Err("OpenChild")]
    ELSE IF env.handle = "err" THEN [child |-> c, res |-> Panic]
    ELSE [child |-> set_state([c EXCEPT !.bdev_handle = id, !.desc = id,
                                        !.err_store = IF env.enable_err_store THEN TRUE ELSE @],
                              Open),
          res |-> Ok]

\* mutant: the handle is not taken out of the child
_close_keep_handle(c) == [c EXCEPT !.desc = 0]

_close(c) == [c EXCEPT !.bdev_handle = 0, !.desc = 0]

\* mutant: the state is set, the descriptor and the handle stay
close_state_only(c) == set_state(c, Closed)

close(c) == set_state(_close(c), Closed)

fault(c, reason) ==
    IF reason = "OutOfSync" THEN set_state(c, Faulted(reason))
    ELSE set_state(_close(c), Faulted(reason))

offline(c) == close(c)

\* mutant: the child is left as open() left it
online_as_opened(c, parent_size, env, id) == open(c, parent_size, env, id)

online(c, parent_size, env, id) ==
    LET r == open(c, parent_size, env, id)
    IN  IF r.res = Panic THEN r
        ELSE [child |-> set_state(r.child, Faulted("OutOfSync")), res |-> r.res]

\* mutant: the state is not asserted
destroy_any_state(c, bdev_destroy) ==
    IF c.bdev # 0 THEN [res |-> bdev_destroy, dev |-> "bdev_destroy"]
    ELSE [res |-> Ok, dev |-> "none"]

\* destroy: bdev_destroy is the result of bdev_destroy(&self.name), dev tells
\* whether it was called
destroy(c, bdev_destroy) ==
    IF state(c) # Closed THEN [res |-> Panic, dev |-> "none"]
    ELSE IF c.bdev # 0 THEN [res |-> bdev_destroy, dev |-> "bdev_destroy"]
    ELSE [res |-> Ok, dev |-> "none"]

\* mutant: an out-of-sync child is not accessible
is_accessible_open_only(c) == state(c) = Open

is_accessible(c) == state(c) = Open \/ state(c) = Faulted("OutOfSync")

get_dev(c) ==
    IF ~is_accessible(c) THEN Err("ChildInaccessible")
    ELSE IF c.bdev # 0 /\ c.bdev_handle # 0 THEN Ok
    ELSE Err("ChildInvalid")

\* write_at and read_at: "submitted" when the I/O goes to the backing device
\* (whose own outcome is then Ok or WriteError / ReadError)
io_at(c) == IF c.bdev_handle # 0 THEN "submitted" ELSE "InvalidDescriptor"

\* mutant: the status file keeps what it held
save_state_change_stale(saved, file, c) == file

\* ChildStatusConfig::save writes the state of the children; it may fail, which
\* save_state_change logs
save_state_change(saved, file, c) == IF saved THEN state(c) ELSE file

\* the record of a child call; io: what the call handed to the backing device
Call(op, reason, parent_size, pre, res, save, io) ==
    [op |-> op, reason |-> reason, parent_size |-> parent_size, pre |-> pre,
     res |-> res, save |-> save, io |-> io]

ChildInit ==
    /\ child \in {new(b) : b \in 0 .. MaxSize}
    /\ statusFile = Init_
    /\ clast = Call("new", None, 0, child, Ok, "none", "none")
    /\ nextDesc = 1

ChildOpen(parent_size, env) ==
    /\ ~aborted
    /\ nextDesc <= MaxOpens
    /\ LET r == open(child, parent_size, env, nextDesc)
       IN  /\ child' = r.child
           /\ aborted' = (r.res = Panic)
           /\ nextDesc' = IF r.res = Ok THEN nextDesc + 1 ELSE nextDesc
           /\ clast' = Call("open", None, parent_size, child, r.res, "none", "none")
    /\ UNCHANGED <<statusFile>>
    /\ UNCHANGED lvsVars
    /\ UNCHANGED rtVars

ChildClose ==
    /\ ~aborted
    /\ child' = close(child)
    /\ clast' = Call("close", None, 0, child, Ok, "none", "none")
    /\ UNCHANGED <<statusFile, nextDesc, aborted>>
    /\ UNCHANGED lvsVars
    /\ UNCHANGED rtVars

ChildFault(reason, saved) ==
    /\ ~aborted
    /\ child' = fault(child, reason)
    /\ statusFile' = save_state_change(saved, statusFile, child')
    /\ clast' = Call("fault", reason, 0, child, Ok, IF saved THEN "ok" ELSE "err", "none")
    /\ UNCHANGED <<nextDesc, aborted>>
    /\ UNCHANGED lvsVars
    /\ UNCHANGED rtVars

ChildOffline(saved) ==
    /\ ~aborted
    /\ child' = offline(child)
    /\ statusFile' = save_state_change(saved, statusFile, child')
    /\ clast' = Call("offline", None, 0, child, Ok, IF saved THEN "ok" ELSE "err", "none")
    /\ UNCHANGED <<nextDesc, aborted>>
    /\ UNCHANGED lvsVars
    /\ UNCHANGED rtVars

ChildOnline(parent_size, env, saved) ==
    /\ ~aborted
    /\ nextDesc <= MaxOpens
    /\ LET r == online(child, parent_size, env, nextDesc)
       IN  /\ child' = r.child
           /\ aborted' = (r.res = Panic)
           /\ nextDesc' = IF r.res = Ok THEN nextDesc + 1 ELSE nextDesc
           /\ statusFile' = IF r.res = Panic THEN statusFile
                            ELSE save_state_change(saved, statusFile, r.child)
           /\ clast' = Call("online", None, parent_size, child, r.res,
                            IF r.res = Panic THEN "none"
                            ELSE IF saved THEN "ok" ELSE "err", "none")
    /\ UNCHANGED lvsVars
    /\ UNCHANGED rtVars

ChildDestroy(bdev_destroy) ==
    /\ ~aborted
    /\ LET r == destroy(child, bdev_destroy)
       IN  /\ aborted' = (r.res = Panic)
           /\ clast' = Call("destroy", None, 0, child, r.res, "none", r.dev)
    /\ UNCHANGED <<child, statusFile, nextDesc>>
    /\ UNCHANGED lvsVars
    /\ UNCHANGED rtVars

ChildIo(op) ==
    /\ ~aborted
    /\ clast' = Call(op, None, 0, child, Ok, "none", io_at(child))
    /\ UNCHANGED <<child, statusFile, nextDesc, aborted>>
    /\ UNCHANGED lvsVars
    /\ UNCHANGED rtVars


(***************************************************************************)
(*              SNAPSHOT / CLONE ENGINE  (lvol_snapshot.rs)                *)
(***************************************************************************)
\* Bounds: backend calls in flight at once, remote request handles of a run
MaxInflight == 2
MaxReq == 2

\* the uuids of the model: a regular volume, snapshots, clones
Vols == {"v1"}
SnapIds == {"s1", "s2", "s3"}
CloneIds == {"c1", "c2"}
Uuids == Vols \cup SnapIds \cup CloneIds

\* SnapshotXattrs::iter(), in its order
SnapshotXattrs ==
    <<"TxId", "EntityId", "ParentId", "SnapshotUuid", "SnapshotCreateTime", "DiscardedSnapshot">>

\* CloneXattrs::iter(), in its order
CloneXattrs == <<"SourceUuid", "CloneUuid", "CloneCreateTime">>

XattrKeys ==
    {SnapshotXattrs[i] : i \in 1 .. Len(SnapshotXattrs)}
        \cup {CloneXattrs[i] : i \in 1 .. Len(CloneXattrs)}

NoXattrs == [k \in XattrKeys |-> None]

\* what the blobstore keeps of an lvol: the snapshot flag of the blob, its xattrs,
\* the snapshot it is a clone of, its name, the parent of the blob in the
\* blobstore's back-pointer chain. For the statement of the claims: origin, the
\* lvol a snapshot was taken of, and seq, the place of a snapshot among the
\* snapshots of the registry in the order of their creation (0: no snapshot)
NoBlob ==
    [is_snapshot |-> FALSE, xattrs |-> NoXattrs, clone_parent |-> None, name |-> None,
     parent |-> None, origin |-> None, seq |-> 0]

VolumeBlob(name) == [NoBlob EXCEPT !.name = name]

\* mutant: the flag is read in another spelling than it is written in
ParseBoolCapital(str) == IF str = "True" THEN TRUE ELSE FALSE

\* bool::to_string and str::parse::<bool>().unwrap_or_default()
BoolToString(b) == IF b THEN "true" ELSE "false"

ParseBoolOrDefault(str) == IF str = "true" THEN TRUE ELSE FALSE

UnwrapOrDefault(opt) == IF opt = None THEN "" ELSE opt

get_blob_xattr(b, attr) == blob[b].xattrs[attr]

is_snapshot(b) == blob[b].is_snapshot

\* the snapshot lvol this lvol is a clone of, if that lvol is in the registry
is_snapshot_clone(b) ==
    IF blob[b].clone_parent # None /\ blob[b].clone_parent \in bdevs
    THEN blob[b].clone_parent ELSE None

list_clones_by_snapshot_uuid(s) == {b \in bdevs : is_snapshot_clone(b) = s}

is_discarded_snapshot(b) ==
    ParseBoolOrDefault(UnwrapOrDefault(get_blob_xattr(b, "DiscardedSnapshot")))

\* Bdev::lookup_by_uuid_str and Lvol::try_from: the lvol with this uuid, if any
lookup_by_uuid_str(uuid) == IF uuid \in bdevs THEN uuid ELSE None

\* an Option of a record: <<>> for None, <<r>> for Some(r)
Some(r) == <<r>>

\* snapshot_descriptor(parent): None when the ParentId xattr is there and is not
\* the uuid of the parent given; otherwise the descriptor of the snapshot, with
\* what the xattrs that are there set in its params
snapshot_descriptor(b, parent) ==
    LET x == blob[b].xattrs
        valid_snapshot == \A i \in 1 .. Len(SnapshotXattrs) : x[SnapshotXattrs[i]] # None
        parent_uuid ==
            IF parent # None THEN parent
            ELSE IF lookup_by_uuid_str(UnwrapOrDefault(x["ParentId"])) # None
            THEN lookup_by_uuid_str(UnwrapOrDefault(x["ParentId"]))
            ELSE ""
    IN  IF parent # None /\ x["ParentId"] # None /\ x["ParentId"] # parent THEN <<>>
        ELSE Some(
             [snapshot_lvol |-> b,
              source_uuid |-> parent_uuid,
              parent_id |-> x["ParentId"],
              entity_id |-> x["EntityId"],
              txn_id |-> x["TxId"],
              snapshot_uuid |-> x["SnapshotUuid"],
              create_time |-> x["SnapshotCreateTime"],
              discarded |-> ParseBoolOrDefault(UnwrapOrDefault(x["DiscardedSnapshot"])),
              name |-> blob[b].name,
              num_clones |-> Cardinality(list_clones_by_snapshot_uuid(b)),
              valid_snapshot |-> valid_snapshot])

\* LvolSnapshotIter::parent with inner_blob the blob of cur: the parent blob and
\* the snapshot lvol its SnapshotUuid xattr names, or None when the chain ends,
\* the xattr is not there or no lvol has that uuid
iter_parent(cur) ==
    LET parent_blob == blob[cur].parent
        uuid == get_blob_xattr(parent_blob, "SnapshotUuid")
    IN  IF parent_blob = None THEN <<>>
        ELSE IF uuid = None THEN <<>>
        ELSE IF lookup_by_uuid_str(uuid) = None THEN <<>>
        ELSE Some([inner_blob |-> parent_blob, inner_lvol |-> lookup_by_uuid_str(uuid)])

\* mutant: the walk does not stop at a snapshot of another lvol
RECURSIVE snapshot_walk_all(_, _, _)
snapshot_walk_all(b, cur, n) ==
    LET it == iter_parent(cur)
    IN  IF n = 0 \/ it = <<>> THEN <<>>
        ELSE snapshot_descriptor(it[1].inner_lvol, None)
                 \o snapshot_walk_all(b, it[1].inner_blob, n - 1)

\* the loop of list_snapshot_by_source_uuid of lvol b, the iterator at the blob
\* of cur; n: the length of the longest chain of blobs
RECURSIVE snapshot_walk(_, _, _)
snapshot_walk(b, cur, n) ==
    LET it == iter_parent(cur)
        volume_snap_descr == snapshot_descriptor(it[1].inner_lvol, None)
    IN  IF n = 0 \/ it = <<>> THEN <<>>
        ELSE IF volume_snap_descr[1].source_uuid # b THEN <<>>
        ELSE volume_snap_descr \o snapshot_walk(b, it[1].inner_blob, n - 1)

\* mutant: the loop runs once
list_snapshot_by_source_uuid_once(b) == snapshot_walk(b, b, 1)

list_snapshot_by_source_uuid(b) == snapshot_walk(b, b, Cardinality(Uuids))

list_snapshot_by_snapshot_uuid(b) == snapshot_descriptor(b, None)

\* list_all_snapshots(parent_lvol): the descriptors of the snapshots of the
\* registry that snapshot_descriptor(parent_lvol) does not skip (as a set: their
\* order is the order of the registry)
list_all_snapshots(parent_lvol) ==
    {snapshot_descriptor(b, parent_lvol)[1] :
        b \in {l \in bdevs : is_snapshot(l) /\ snapshot_descriptor(l, parent_lvol) # <<>>}}

\* a Vec of the lvols of a set, in the order of the registry (some fixed order)
RECURSIVE SeqOf(_)
SeqOf(S) ==
    IF S = {} THEN <<>>
    ELSE LET x == CHOOSE y \in S : TRUE IN <<x>> \o SeqOf(S \ {x})

\* mutant: the clones of the snapshots are left out
RECURSIVE reset_walk_snapshots_only(_, _)
reset_walk_snapshots_only(cur, n) ==
    LET it == iter_parent(cur)
    IN  IF n = 0 \/ it = <<>> THEN <<>>
        ELSE <<it[1].inner_lvol>> \o reset_walk_snapshots_only(it[1].inner_blob, n - 1)

\* the loop of reset_snapshot_tree_usage_cache_with_parent_uuid, the iterator at
\* the blob of cur: the lvols whose cache is reset, in the order of the resets
RECURSIVE reset_walk(_, _)
reset_walk(cur, n) ==
    LET it == iter_parent(cur)
    IN  IF n = 0 \/ it = <<>> THEN <<>>
        ELSE <<it[1].inner_lvol>> \o SeqOf(list_clones_by_snapshot_uuid(it[1].inner_lvol))
                 \o reset_walk(it[1].inner_blob, n - 1)

reset_snapshot_tree_usage_cache_with_parent_uuid(lvol) == reset_walk(lvol, Cardinality(Uuids))

\* the successor_snapshots the wildcard reset starts with: the snapshots of
\* list_all_snapshots(None) that pass the filter, which reads the ParentId of lvol
wildcard_start(lvol, snapshot_parent_uuid) ==
    {d.snapshot_lvol :
        d \in {e \in list_all_snapshots(None) :
                  /\ get_blob_xattr(lvol, "ParentId") # None
                  /\ get_blob_xattr(lvol, "ParentId") = snapshot_parent_uuid}}

\* the element that ends the resets of a loop cut off by the model
Unfinished == "<unfinished>"

\* the while loop of reset_snapshot_tree_usage_cache_with_wildcard: the lvols
\* whose cache is reset, in the order of the resets; the loop is cut off after
\* fuel rounds
RECURSIVE wildcard_loop(_, _, _)
wildcard_loop(successor_snapshots, successor_clones, fuel) ==
    LET has_snapshot == successor_snapshots # <<>>
        snapshot == successor_snapshots[Len(successor_snapshots)]
        snapshots1 == IF has_snapshot
                      THEN SubSeq(successor_snapshots, 1, Len(successor_snapshots) - 1)
                      ELSE successor_snapshots
        clones1 == IF has_snapshot
                   THEN successor_clones \o SeqOf(list_clones_by_snapshot_uuid(snapshot))
                   ELSE successor_clones
        has_clone == clones1 # <<>>
        clone == clones1[Len(clones1)]
        clones2 == IF has_clone THEN SubSeq(clones1, 1, Len(clones1) - 1) ELSE clones1
        snapshots2 == IF has_clone
                      THEN snapshots1
                               \o SeqOf({d.snapshot_lvol : d \in list_all_snapshots(clone)})
                      ELSE snapshots1
    IN  IF successor_snapshots = <<>> /\ successor_clones = <<>> THEN <<>>
        ELSE IF fuel = 0 THEN <<Unfinished>>
        ELSE (IF has_snapshot THEN <<snapshot>> ELSE <<>>)
                 \o (IF has_clone THEN <<clone>> ELSE <<>>)
                 \o wildcard_loop(snapshots2, clones2, fuel - 1)

reset_snapshot_tree_usage_cache_with_wildcard(lvol, snapshot_parent_uuid) ==
    wildcard_loop(SeqOf(wildcard_start(lvol, snapshot_parent_uuid)), <<>>,
                  Cardinality(Uuids) * Cardinality(Uuids))

\* which of its branches reset_snapshot_tree_usage_cache takes
reset_branch(b, is_replica) ==
    IF is_replica THEN "replica"
    ELSE IF get_blob_xattr(b, "ParentId") = None THEN "none"
    ELSE IF lookup_by_uuid_str(get_blob_xattr(b, "ParentId")) # None THEN "parent"
    ELSE "wildcard"

\* reset_snapshot_tree_usage_cache: the lvols whose cache is reset, in the order
\* of the resets
reset_snapshot_tree_usage_cache(b, is_replica) ==
    LET snapshot_parent_uuid == get_blob_xattr(b, "ParentId")
    IN  CASE reset_branch(b, is_replica) = "replica" ->
                 reset_snapshot_tree_usage_cache_with_parent_uuid(b)
          [] reset_branch(b, is_replica) = "parent" ->
                 <<snapshot_parent_uuid>>
                     \o reset_snapshot_tree_usage_cache_with_parent_uuid(snapshot_parent_uuid)
          [] reset_branch(b, is_replica) = "wildcard" ->
                 reset_snapshot_tree_usage_cache_with_wildcard(b, snapshot_parent_uuid)
          [] OTHER -> <<>>

\* SnapshotParams::new
SnapshotParams(entity_id, parent_id, txn_id, name, snapshot_uuid, create_time, discarded) ==
    [entity_id |-> entity_id, parent_id |-> parent_id, txn_id |-> txn_id, name |-> name,
     snapshot_uuid |-> snapshot_uuid, create_time |-> create_time, discarded |-> discarded]

\* the Option of the params, with Utc::now() as the string "now"
prepare_snap_config(v, snap_name, entity_id, txn_id, snap_uuid) ==
    IF snap_name = "" \/ entity_id = "" \/ txn_id = "" THEN <<>>
    ELSE Some(SnapshotParams(entity_id, v, txn_id, snap_name,
                             IF snap_uuid = "" THEN None ELSE snap_uuid, "now", FALSE))

\* mutant: the entity id is written as TxId and the txn id as EntityId
attr_value_swapped(params, attr) ==
    CASE attr = "TxId" -> params.entity_id
      [] attr = "EntityId" -> params.txn_id
      [] attr = "ParentId" -> params.parent_id
      [] attr = "SnapshotUuid" -> params.snapshot_uuid
      [] attr = "SnapshotCreateTime" -> params.create_time
      [] attr = "DiscardedSnapshot" -> BoolToString(params.discarded)

\* the value prepare_snapshot_xattrs takes from the params for an attribute
attr_value(params, attr) ==
    CASE attr = "TxId" -> params.txn_id
      [] attr = "EntityId" -> params.entity_id
      [] attr = "ParentId" -> params.parent_id
      [] attr = "SnapshotUuid" -> params.snapshot_uuid
      [] attr = "SnapshotCreateTime" -> params.create_time
      [] attr = "DiscardedSnapshot" -> BoolToString(params.discarded)

attr_msg(attr) ==
    CASE attr = "TxId" -> "txn id not provided"
      [] attr = "EntityId" -> "entity id not provided"
      [] attr = "ParentId" -> "parent id not provided"
      [] attr = "SnapshotUuid" -> "snapshot_uuid not provided"
      [] attr = "SnapshotCreateTime" -> "create_time not provided"
      [] attr = "DiscardedSnapshot" -> None

\* Ok with the xattr descriptors, or the error of the first attribute, in the
\* order of the iteration, whose value is not provided
prepare_snapshot_xattrs(params) ==
    LET missing == {i \in 1 .. Len(SnapshotXattrs) : attr_value(params, SnapshotXattrs[i]) = None}
        first == CHOOSE i \in missing : \A j \in missing : i <= j
    IN  IF missing = {}
        THEN [tag |-> "Ok", msg |-> None,
              xattrs |-> [k \in XattrKeys |->
                             IF \E i \in 1 .. Len(SnapshotXattrs) : SnapshotXattrs[i] = k
                             THEN attr_value(params, k) ELSE None]]
        ELSE [tag |-> "SnapshotConfigFailed", msg |-> attr_msg(SnapshotXattrs[first]),
              xattrs |-> NoXattrs]

\* a call submitted to the backend: vbdev_lvol_create_snapshot_ext,
\* vbdev_lvol_create_clone_ext, the destroy of an lvol, the write of an xattr.
\* lvol: the lvol it is called on; new, name, xattrs: what it creates or writes;
\* params: the parameters of the caller; caller: the operation awaiting it;
\* handle: the NvmfReq to complete; nclones: the live clones the caller counted
\* before it submitted
Req(op, lvol, created, name, xattrs, params, caller, handle, nclones) ==
    [op |-> op, lvol |-> lvol, new |-> created, name |-> name, xattrs |-> xattrs,
     params |-> params, caller |-> caller, handle |-> handle, nclones |-> nclones]

NoParams == [none |-> TRUE]

\* the result a call returns: Ok, or the error with its message and errno
LRes(tag, msg, errno) == [tag |-> tag, msg |-> msg, errno |-> errno]

\* Ok and the backend call to submit, the error of the xattrs, or the panic of
\* snap_param.name().unwrap(). cstrs: the creations whose vector of buffers is
\* alive once the function has returned: none, the Vec<CString> is a local of the
\* function and is dropped at its return
create_snapshot_inner(v, params, op, handle) ==
    LET x == prepare_snapshot_xattrs(params)
    IN  IF x.tag # "Ok" THEN [tag |-> x.tag, msg |-> x.msg, submit |-> {}, cstrs |-> {}]
        ELSE IF params.name = None
        THEN [tag |-> "panic", msg |-> None, submit |-> {}, cstrs |-> {}]
        ELSE [tag |-> "Ok", msg |-> None,
              submit |-> {Req(op, v, params.snapshot_uuid, params.name, x.xattrs, params,
                              op, handle, 0)},
              cstrs |-> {}]

\* mutant: the clones are not looked at
destroy_snapshot_always(s) ==
    Req("destroy", s, None, None, NoXattrs, NoParams, "destroy_snapshot", 0,
        Cardinality(list_clones_by_snapshot_uuid(s)))

\* the backend call destroy_snapshot makes
destroy_snapshot(s) ==
    LET n == Cardinality(list_clones_by_snapshot_uuid(s))
    IN  IF list_clones_by_snapshot_uuid(s) = {}
        THEN Req("destroy", s, None, None, NoXattrs, NoParams, "destroy_snapshot", 0, n)
        ELSE Req("set_xattr", s, None, None,
                 [NoXattrs EXCEPT !["DiscardedSnapshot"] = BoolToString(TRUE)],
                 NoParams, "destroy_snapshot", 0, n)

\* the snapshots destroy_pending_discarded_snapshot collects
snap_list ==
    {b \in bdevs : is_snapshot(b) /\ is_discarded_snapshot(b)
                     /\ list_clones_by_snapshot_uuid(b) = {}}

NoSweep == [active |-> FALSE]

NvmfUnused == [used |-> FALSE, complete |-> 0, complete_error |-> 0, errno |-> 0]

LvsInit ==
    /\ bdevs = Vols
    /\ blob = [u \in Uuids |-> IF u \in Vols THEN VolumeBlob(u) ELSE NoBlob]
    /\ reqs = {}
    /\ sweep = NoSweep
    /\ ldone = [op |-> "none"]
    /\ nvmf = [h \in 1 .. MaxReq |-> NvmfUnused]

\* an operation that starts while the sweep awaits its destroys
Interfere(sw) == IF sw.active THEN [sw EXCEPT !.alone = FALSE] ELSE sw


\* CloneParams::new
CloneParams(clone_name, clone_uuid, source_uuid, clone_create_time) ==
    [clone_name |-> clone_name, clone_uuid |-> clone_uuid, source_uuid |-> source_uuid,
     clone_create_time |-> clone_create_time]

prepare_clone_config(clone_name, clone_uuid, source_uuid) ==
    IF clone_name = "" \/ clone_uuid = "" \/ source_uuid = "" THEN None
    ELSE CloneParams(clone_name, clone_uuid, source_uuid, "now")

clone_attr_value(params, attr) ==
    CASE attr = "SourceUuid" -> params.source_uuid
      [] attr = "CloneUuid" -> params.clone_uuid
      [] attr = "CloneCreateTime" -> params.clone_create_time

clone_attr_msg(attr) ==
    CASE attr = "SourceUuid" -> "source uuid not provided"
      [] attr = "CloneUuid" -> "clone_uuid not provided"
      [] attr = "CloneCreateTime" -> "create_time not provided"

prepare_clone_xattrs(params) ==
    LET missing == {i \in 1 .. Len(CloneXattrs) : clone_attr_value(params, CloneXattrs[i]) = None}
        first == CHOOSE i \in missing : \A j \in missing : i <= j
    IN  IF missing = {}
        THEN [tag |-> "Ok", msg |-> None,
              xattrs |-> [k \in XattrKeys |->
                             IF \E i \in 1 .. Len(CloneXattrs) : CloneXattrs[i] = k
                             THEN clone_attr_value(params, k) ELSE None]]
        ELSE [tag |-> "CloneConfigFailed", msg |-> clone_attr_msg(CloneXattrs[first]),
              xattrs |-> NoXattrs]

create_clone_inner(s, params) ==
    LET x == prepare_clone_xattrs(params)
    IN  IF x.tag # "Ok" THEN [tag |-> x.tag, msg |-> x.msg, submit |-> {}, cstrs |-> {}]
        ELSE [tag |-> "Ok", msg |-> None,
              submit |-> {Req("create_clone", s, params.clone_uuid,
                              UnwrapOrDefault(params.clone_name), x.xattrs, params,
                              "create_clone", 0, 0)},
              cstrs |-> {}]

\* create_snapshot up to its await of the completion
CreateSnapshot(v, params) ==
    /\ ~aborted
    /\ v \in bdevs /\ ~is_snapshot(v)
    /\ LET r == create_snapshot_inner(v, params, "create_snapshot", 0)
       IN  /\ r.submit \cap reqs = {}
           /\ r.submit # {} => Cardinality(reqs) < MaxInflight
           /\ reqs' = reqs \cup r.submit
           /\ cstrs' = cstrs \cup r.cstrs
           /\ aborted' = (r.tag = "panic")
           /\ ldone' = IF r.tag = "Ok" THEN ldone
                       ELSE [op |-> "create_snapshot", lvol |-> v, params |-> params,
                             res |-> LRes(r.tag, r.msg, 0),
                             submitted |-> FALSE, event |-> FALSE]
    /\ sweep' = Interfere(sweep)
    /\ UNCHANGED <<bdevs, blob, nvmf>>
    /\ UNCHANGED childVars
    /\ UNCHANGED rt

\* create_snapshot_remote: it returns once the backend call is submitted, or failed
CreateSnapshotRemote(v, params, h) ==
    /\ ~aborted
    /\ v \in bdevs /\ ~is_snapshot(v)
    /\ ~nvmf[h].used /\ \A g \in 1 .. h - 1 : nvmf[g].used
    /\ LET r == create_snapshot_inner(v, params, "create_snapshot_remote", h)
       IN  /\ r.submit \cap reqs = {}
           /\ r.submit # {} => Cardinality(reqs) < MaxInflight
           /\ reqs' = reqs \cup r.submit
           /\ cstrs' = cstrs \cup r.cstrs
           /\ aborted' = (r.tag = "panic")
           /\ ldone' = [op |-> "create_snapshot_remote", lvol |-> v, params |-> params,
                        res |-> LRes(r.tag, r.msg, 0),
                        submitted |-> (r.tag = "Ok"), event |-> (r.tag = "Ok")]
    /\ nvmf' = [nvmf EXCEPT ![h].used = TRUE]
    /\ sweep' = Interfere(sweep)
    /\ UNCHANGED <<bdevs, blob>>
    /\ UNCHANGED childVars
    /\ UNCHANGED rt

\* create_clone up to its await of the completion
CreateClone(s, params) ==
    /\ ~aborted
    /\ s \in bdevs
    /\ LET r == create_clone_inner(s, params)
       IN  /\ r.submit \cap reqs = {}
           /\ r.submit # {} => Cardinality(reqs) < MaxInflight
           /\ reqs' = reqs \cup r.submit
           /\ cstrs' = cstrs \cup r.cstrs
           /\ ldone' = IF r.tag = "Ok" THEN ldone
                       ELSE [op |-> "create_clone", lvol |-> s, params |-> params,
                             res |-> LRes(r.tag, r.msg, 0),
                             submitted |-> FALSE, event |-> FALSE]
    /\ sweep' = Interfere(sweep)
    /\ UNCHANGED <<bdevs, blob, nvmf, aborted>>
    /\ UNCHANGED childVars
    /\ UNCHANGED rt

\* destroy_snapshot up to its await of the destroy or of the xattr write
DestroySnapshot(s) ==
    /\ ~aborted
    /\ s \in bdevs /\ is_snapshot(s)
    /\ destroy_snapshot(s) \notin reqs
    /\ Cardinality(reqs) < MaxInflight
    /\ reqs' = reqs \cup {destroy_snapshot(s)}
    /\ sweep' = Interfere(sweep)
    /\ UNCHANGED <<bdevs, blob, ldone, nvmf, aborted>>
    /\ UNCHANGED childVars
    /\ UNCHANGED rtVars

\* the destroy of a clone, up to its await of the backend
DestroyClone(c) ==
    /\ ~aborted
    /\ c \in bdevs /\ blob[c].clone_parent # None
    /\ LET r == Req("destroy", c, None, None, NoXattrs, NoParams, "destroy", 0, 0)
       IN  /\ r \notin reqs
           /\ Cardinality(reqs) < MaxInflight
           /\ reqs' = reqs \cup {r}
    /\ sweep' = Interfere(sweep)
    /\ UNCHANGED <<bdevs, blob, ldone, nvmf, aborted>>
    /\ UNCHANGED childVars
    /\ UNCHANGED rtVars

\* the destroy of a regular volume, up to its await of the backend
DestroyVolume(v) ==
    /\ ~aborted
    /\ v \in bdevs /\ ~is_snapshot(v) /\ blob[v].clone_parent = None
    /\ LET r == Req("destroy", v, None, None, NoXattrs, NoParams, "destroy", 0, 0)
       IN  /\ r \notin reqs
           /\ Cardinality(reqs) < MaxInflight
           /\ reqs' = reqs \cup {r}
    /\ sweep' = Interfere(sweep)
    /\ UNCHANGED <<bdevs, blob, ldone, nvmf, aborted>>
    /\ UNCHANGED childVars
    /\ UNCHANGED rtVars

\* reset_snapshot_tree_usage_cache called on lvol b; the model keeps the resets
\* it made and, for the wildcard reset, the snapshots it started with
ResetSnapshotTreeUsageCache(b, is_replica) ==
    /\ ~aborted
    /\ b \in bdevs
    /\ ldone' = [op |-> "reset_snapshot_tree_usage_cache", lvol |-> b,
                 branch |-> reset_branch(b, is_replica),
                 parent |-> get_blob_xattr(b, "ParentId"),
                 start |-> IF reset_branch(b, is_replica) = "wildcard"
                           THEN wildcard_start(b, get_blob_xattr(b, "ParentId")) ELSE {},
                 resets |-> reset_snapshot_tree_usage_cache(b, is_replica)]
    /\ UNCHANGED <<bdevs, blob, reqs, sweep, nvmf, aborted>>
    /\ UNCHANGED childVars
    /\ UNCHANGED rtVars

\* Bounds: the bytes of a usage figure, the total of the ancestors handed in
MaxAlloc == 1
MaxTotal == 2

\* LvolSpaceUsage, the two fields calculate_clone_source_snap_usage reads
UsageFigs == [allocated_bytes : 0 .. MaxAlloc, allocated_bytes_snapshots : 0 .. MaxAlloc]

\* an Option<u64>; Overflow: the u64 subtraction went below zero (a panic in a
\* build with overflow checks, the value wrapped round 2^64 in one without)
URes(tag, v) == [tag |-> tag, v |-> v]

u64_sub(a, b) == IF a >= b THEN URes("Some", a - b) ELSE URes("Overflow", 0)

\* .map(|v| v.snapshot_lvol().usage().allocated_bytes).sum()
RECURSIVE SumAllocated(_, _)
SumAllocated(S, usage) ==
    IF S = {} THEN 0
    ELSE LET x == CHOOSE y \in S : TRUE
         IN  usage[x].allocated_bytes + SumAllocated(S \ {x}, usage)

\* mutant: the figures of the clone itself are taken off the total
calculate_clone_source_snap_usage_of_clone(b, total_ancestor_snap_size, usage) ==
    IF is_snapshot(b)
    THEN LET l == lookup_by_uuid_str(UnwrapOrDefault(get_blob_xattr(b, "ParentId")))
         IN  IF l = None THEN URes("None", 0)
             ELSE IF is_snapshot_clone(l) = None THEN URes("None", 0)
             ELSE u64_sub(total_ancestor_snap_size,
                          usage[l].allocated_bytes_snapshots + usage[l].allocated_bytes)
    ELSE IF is_snapshot_clone(b) # None
    THEN URes("Some", SumAllocated({d.snapshot_lvol : d \in list_all_snapshots(b)}, usage))
    ELSE URes("None", 0)

\* calculate_clone_source_snap_usage on lvol b, usage[l] being what l.usage()
\* returns
calculate_clone_source_snap_usage(b, total_ancestor_snap_size, usage) ==
    IF is_snapshot(b)
    THEN LET l == lookup_by_uuid_str(UnwrapOrDefault(get_blob_xattr(b, "ParentId")))
         IN  IF l = None THEN URes("None", 0)
             ELSE IF is_snapshot_clone(l) = None THEN URes("None", 0)
             ELSE LET parent_snap_lvol == is_snapshot_clone(l)
                  IN  u64_sub(total_ancestor_snap_size,
                              usage[parent_snap_lvol].allocated_bytes_snapshots
                                  + usage[parent_snap_lvol].allocated_bytes)
    ELSE IF is_snapshot_clone(b) # None
    THEN URes("Some", SumAllocated({d.snapshot_lvol : d \in list_all_snapshots(b)}, usage))
    ELSE URes("None", 0)

\* the lvols whose usage figures bear on the call on b: the lvol its ParentId
\* names, the snapshot that lvol is a clone of, and for a clone b the snapshots
\* that name b or that the listing of the snapshots of b returns
Concerned(b) ==
    {l \in bdevs :
        \/ l = get_blob_xattr(b, "ParentId")
        \/ \E c \in bdevs : c = get_blob_xattr(b, "ParentId") /\ l = blob[c].clone_parent
        \/ blob[b].clone_parent # None /\ is_snapshot(l) /\ get_blob_xattr(l, "ParentId") = b
        \/ blob[b].clone_parent # None /\ \E d \in list_all_snapshots(b) : d.snapshot_lvol = l}

\* which of the cases of the accounting lvol b is
UsageCase(b) ==
    LET p == get_blob_xattr(b, "ParentId")
    IN  IF is_snapshot(b)
        THEN IF p \in bdevs /\ blob[p].clone_parent # None /\ ~is_snapshot(p)
             THEN "snapshot_of_clone" ELSE "other"
        ELSE IF blob[b].clone_parent # None THEN "clone" ELSE "other"

\* calculate_clone_source_snap_usage called on lvol b; the model keeps what it
\* returned and, for the statement of the claims, the case b is, the clone C it
\* is a snapshot of, the snapshot C is a clone of, the snapshots that name b
CalculateCloneSourceSnapUsage(b, total_ancestor_snap_size, usage) ==
    /\ ~aborted
    /\ b \in bdevs
    /\ ldone' = [op |-> "calculate_clone_source_snap_usage", lvol |-> b,
                 total |-> total_ancestor_snap_size, usage |-> usage,
                 case |-> UsageCase(b),
                 clone |-> IF UsageCase(b) = "snapshot_of_clone"
                           THEN get_blob_xattr(b, "ParentId") ELSE None,
                 source |-> IF UsageCase(b) = "snapshot_of_clone"
                            THEN blob[get_blob_xattr(b, "ParentId")].clone_parent ELSE None,
                 snaps |-> {s \in bdevs : is_snapshot(s) /\ get_blob_xattr(s, "ParentId") = b},
                 res |-> calculate_clone_source_snap_usage(b, total_ancestor_snap_size, usage)]
    /\ UNCHANGED <<bdevs, blob, reqs, sweep, nvmf, aborted>>
    /\ UNCHANGED childVars
    /\ UNCHANGED rtVars

\* mutant: the failure of a destroy is returned as the error of the sweep
SweepDoneOrError(sw, after) ==
    [op |-> "sweep", collected |-> sw.collected, failed |-> sw.failed,
     alone |-> sw.alone, after |-> after,
     res |-> IF sw.failed = {} THEN LRes("Ok", None, 0) ELSE LRes("Err", None, 5)]

\* what destroy_pending_discarded_snapshot returns with
SweepDone(sw, after) ==
    [op |-> "sweep", collected |-> sw.collected, failed |-> sw.failed,
     alone |-> sw.alone, after |-> after, res |-> LRes("Ok", None, 0)]

\* destroy_pending_discarded_snapshot up to the await of join_all
DestroyPendingDiscardedSnapshot ==
    /\ ~aborted
    /\ ~sweep.active
    /\ Cardinality(reqs) + Cardinality(snap_list) <= MaxInflight
    /\ LET rs == {Req("destroy", s, None, None, NoXattrs, NoParams, "sweep", 0, 0) : s \in snap_list}
           sw == [active |-> TRUE, collected |-> snap_list, pending |-> snap_list, failed |-> {},
                  alone |-> (reqs = {})]
       IN  /\ reqs' = reqs \cup rs
           /\ IF snap_list = {}
              THEN sweep' = NoSweep /\ ldone' = SweepDone(sw, bdevs)
              ELSE sweep' = sw /\ UNCHANGED ldone
    /\ UNCHANGED <<bdevs, blob, nvmf, aborted>>
    /\ UNCHANGED childVars
    /\ UNCHANGED rtVars

\* the listings: they change nothing, the model keeps what they return
ListSnapshotBySourceUuid(b) ==
    /\ ~aborted
    /\ b \in bdevs
    /\ ldone' = [op |-> "list_snapshot_by_source_uuid", lvol |-> b,
                 list |-> list_snapshot_by_source_uuid(b)]
    /\ UNCHANGED <<bdevs, blob, reqs, sweep, nvmf, aborted>>
    /\ UNCHANGED childVars
    /\ UNCHANGED rtVars

ListSnapshotBySnapshotUuid(b) ==
    /\ ~aborted
    /\ b \in bdevs /\ is_snapshot(b)
    /\ ldone' = [op |-> "list_snapshot_by_snapshot_uuid", lvol |-> b,
                 list |-> list_snapshot_by_snapshot_uuid(b)]
    /\ UNCHANGED <<bdevs, blob, reqs, sweep, nvmf, aborted>>
    /\ UNCHANGED childVars
    /\ UNCHANGED rtVars

ListAllSnapshots(parent_lvol) ==
    /\ ~aborted
    /\ parent_lvol # None => parent_lvol \in bdevs
    /\ ldone' = [op |-> "list_all_snapshots", lvol |-> parent_lvol,
                 all |-> list_all_snapshots(parent_lvol)]
    /\ UNCHANGED <<bdevs, blob, reqs, sweep, nvmf, aborted>>
    /\ UNCHANGED childVars
    /\ UNCHANGED rtVars

\* prepare_snap_config called on lvol v; the model keeps what it returns
PrepareSnapConfig(v, snap_name, entity_id, txn_id, snap_uuid) ==
    /\ ~aborted
    /\ v \in bdevs
    /\ ldone' = [op |-> "prepare_snap_config", lvol |-> v,
                 args |-> [snap_name |-> snap_name, entity_id |-> entity_id,
                           txn_id |-> txn_id, snap_uuid |-> snap_uuid],
                 config |-> prepare_snap_config(v, snap_name, entity_id, txn_id, snap_uuid)]
    /\ UNCHANGED <<bdevs, blob, reqs, sweep, nvmf, aborted>>
    /\ UNCHANGED childVars
    /\ UNCHANGED rtVars

\* the errno a backend call completes with
BackendErrnos == {0, -5}

IsCreate(r) == r.op \in {"create_snapshot", "create_snapshot_remote", "create_clone"}

\* whether the backend can complete the call with success
CanSucceed(r) ==
    CASE r.op \in {"create_snapshot", "create_snapshot_remote"} ->
             r.lvol \in bdevs /\ r.new \notin bdevs
      [] r.op = "create_clone" -> r.lvol \in bdevs /\ is_snapshot(r.lvol) /\ r.new \notin bdevs
      [] OTHER -> r.lvol \in bdevs

backend_bdevs(r, errno) ==
    IF errno # 0 THEN bdevs
    ELSE IF IsCreate(r) THEN bdevs \cup {r.new}
    ELSE IF r.op = "destroy" THEN bdevs \ {r.lvol}
    ELSE bdevs

backend_blob(r, errno) ==
    IF errno # 0 THEN blob
    ELSE IF r.op = "create_clone"
    THEN [blob EXCEPT ![r.new] =
             [is_snapshot |-> FALSE, xattrs |-> r.xattrs, clone_parent |-> r.lvol,
              name |-> r.name, parent |-> r.lvol, origin |-> None, seq |-> 0]]
    ELSE IF IsCreate(r)
    THEN [blob EXCEPT ![r.new] =
                          [is_snapshot |-> TRUE, xattrs |-> r.xattrs, clone_parent |-> None,
                           name |-> r.name, parent |-> blob[r.lvol].parent, origin |-> r.lvol,
                           seq |-> Cardinality({t \in bdevs : blob[t].is_snapshot}) + 1],
                      ![r.lvol].parent = r.new]
    ELSE IF r.op = "destroy"
    THEN [u \in Uuids |->
             IF u = r.lvol THEN NoBlob
             ELSE [blob[u] EXCEPT
                      !.parent = IF @ = r.lvol THEN blob[r.lvol].parent ELSE @,
                      !.seq = IF blob[r.lvol].seq # 0 /\ @ > blob[r.lvol].seq THEN @ - 1 ELSE @]]
    ELSE [blob EXCEPT ![r.lvol].xattrs =
             [k \in XattrKeys |-> IF r.xattrs[k] # None THEN r.xattrs[k] ELSE @[k]]]

\* mutant: the errno of the backend is handed on as it came
create_done_raw_errno(r, errno, error) ==
    [op |-> r.caller, lvol |-> r.lvol, params |-> r.params,
     res |-> IF errno = 0 THEN LRes("Ok", r.new, 0) ELSE LRes(error, r.name, errno),
     submitted |-> TRUE, event |-> (errno = 0)]

\* snapshot_create_done_cb, clone_done_cb and the rest of the awaiting call
create_done(r, errno, error) ==
    [op |-> r.caller, lvol |-> r.lvol, params |-> r.params,
     res |-> IF errno = 0 THEN LRes("Ok", r.new, 0) ELSE LRes(error, r.name, -errno),
     submitted |-> TRUE, event |-> (errno = 0)]

\* snapshot_done_cb of create_snapshot_remote
snapshot_done_cb(req, errno) ==
    IF errno = 0 THEN [req EXCEPT !.complete = @ + 1]
    ELSE [req EXCEPT !.complete_error = @ + 1, !.errno = errno]

\* the backend completes a call, its callback runs and the call awaiting it goes on
BackendComplete(r, errno) ==
    /\ ~aborted
    /\ r \in reqs
    /\ errno = 0 => CanSucceed(r)
    /\ reqs' = reqs \ {r}
    /\ bdevs' = backend_bdevs(r, errno)
    /\ blob' = backend_blob(r, errno)
    /\ nvmf' = IF r.caller = "create_snapshot_remote"
               THEN [nvmf EXCEPT ![r.handle] = snapshot_done_cb(@, errno)] ELSE nvmf
    /\ sweep' = IF r.caller # "sweep" THEN sweep
                ELSE IF sweep.pending = {r.lvol} THEN NoSweep
                ELSE [sweep EXCEPT !.pending = @ \ {r.lvol},
                                   !.failed = IF errno = 0 THEN @ ELSE @ \cup {r.lvol}]
    /\ ldone' =
         CASE r.caller = "create_snapshot" -> create_done(r, errno, "SnapshotCreate")
           [] r.caller = "create_clone" -> create_done(r, errno, "SnapshotCloneCreate")
           [] r.caller = "destroy_snapshot" ->
                [op |-> "destroy_snapshot", lvol |-> r.lvol, nclones |-> r.nclones,
                 backend |-> r.op, errno |-> errno,
                 res |-> IF errno = 0 THEN LRes("Ok", None, 0) ELSE LRes("Err", None, -errno),
                 present_after |-> (r.lvol \in bdevs'),
                 discarded_after |-> blob'[r.lvol].xattrs["DiscardedSnapshot"]]
           [] r.caller = "destroy" ->
                [op |-> "destroy", lvol |-> r.lvol,
                 res |-> IF errno = 0 THEN LRes("Ok", None, 0) ELSE LRes("Err", None, -errno)]
           [] r.caller = "sweep" /\ sweep.pending = {r.lvol} ->
                SweepDone([sweep EXCEPT !.failed = IF errno = 0 THEN @ ELSE @ \cup {r.lvol}],
                          bdevs')
           [] OTHER -> ldone
    /\ UNCHANGED aborted
    /\ UNCHANGED childVars
    /\ UNCHANGED rtVars

(***************************************************************************)
(*                    RUNTIME BRIDGE  (runtime.rs)                         *)
(***************************************************************************)
\* Bound: the calls of spawn_await going on at once
MaxCallers == 2

\* caller: idle, awaiting (in r.await), resumed. task, the future spawned on the
\* tokio runtime: none, spawned, running (in f.await), f_done, posted (it awaits
\* the task it spawned on the primary reactor), done, unposted (it ended after
\* spawn_at_primary failed), panicked. chan, the oneshot channel: none, open,
\* sent, canceled (the sender was dropped). at_resume: the task as the caller
\* found it when it was resumed
RtIdle == [caller |-> "idle", task |-> "none", chan |-> "none", at_resume |-> "none"]

RtInit ==
    /\ cstrs = {}
    /\ rt = [i \in 1 .. MaxCallers |-> RtIdle]

\* mutant: the receiver is taken as resolved whatever the channel holds
receiver_ready_always(chan) == TRUE

\* mutant: the receiver resolves only on a value sent
receiver_ready_sent_only(chan) == chan = "sent"

\* r.await resolves when the value was sent or the sender was dropped
receiver_ready(chan) == chan \in {"sent", "canceled"}

\* spawn_await up to its r.await
SpawnAwait(i) ==
    /\ rt[i].caller = "idle"
    /\ rt' = [rt EXCEPT ![i] = [caller |-> "awaiting", task |-> "spawned", chan |-> "open",
                                at_resume |-> "none"]]

\* a worker of the runtime polls the task: f.await begins
WorkerPoll(i) ==
    /\ rt[i].task = "spawned"
    /\ rt' = [rt EXCEPT ![i].task = "running"]

\* f completes
FCompletes(i) ==
    /\ rt[i].task = "running"
    /\ rt' = [rt EXCEPT ![i].task = "f_done"]

\* f panics: the task unwinds and drops the sender
FPanics(i) ==
    /\ rt[i].task = "running"
    /\ rt' = [rt EXCEPT ![i].task = "panicked", ![i].chan = "canceled"]

\* Reactor::spawn_at_primary: Ok, and the task awaits what it spawned; or Err,
\* and the future that owns the sender is dropped
SpawnAtPrimary(i, ok) ==
    /\ rt[i].task = "f_done"
    /\ rt' = IF ok THEN [rt EXCEPT ![i].task = "posted"]
             ELSE [rt EXCEPT ![i].task = "unposted", ![i].chan = "canceled"]

\* the primary reactor runs the future posted: s.send(()), and the task ends
PrimaryRuns(i) ==
    /\ rt[i].task = "posted"
    /\ rt' = [rt EXCEPT ![i].task = "done", ![i].chan = "sent"]

\* the caller is polled with its receiver resolved: spawn_await goes on
CallerResumes(i) ==
    /\ rt[i].caller = "awaiting"
    /\ receiver_ready(rt[i].chan)
    /\ rt' = [rt EXCEPT ![i].caller = "resumed", ![i].at_resume = rt[i].task]

\* spawn_await returns
SpawnAwaitReturns(i) ==
    /\ rt[i].caller = "resumed"
    /\ rt' = [rt EXCEPT ![i] = RtIdle]

RtStep(i) ==
    /\ \/ SpawnAwait(i)
       \/ WorkerPoll(i)
       \/ FCompletes(i)
       \/ FPanics(i)
       \/ \E ok \in BOOLEAN : SpawnAtPrimary(i, ok)
       \/ PrimaryRuns(i)
       \/ CallerResumes(i)
       \/ SpawnAwaitReturns(i)
    /\ UNCHANGED <<child, statusFile, clast, nextDesc, aborted, bdevs, blob, reqs, sweep,
                   ldone, nvmf, cstrs>>

(***************************************************************************)
(*                          Specifications                                 *)
(***************************************************************************)
\* the parameters a caller may hand to create_snapshot: every field there or not
SnapParamsAll ==
    [entity_id : {None, "e1"}, parent_id : {None, "v1"}, txn_id : {None, "t1"},
     name : {None, "s1"}, snapshot_uuid : {None, "s1"}, create_time : {None, "now"},
     discarded : {FALSE}]

\* the parameters a caller may hand to create_clone: every field there or not
CloneParamsAll ==
    [clone_name : {None, "c1"}, clone_uuid : {None, "c1"}, source_uuid : {None, "s1", "s2"},
     clone_create_time : {None, "now"}]

InitChild ==
    /\ ChildInit
    /\ LvsInit
    /\ aborted = FALSE
    /\ RtInit

InitLvs ==
    /\ child = new(MaxSize)
    /\ statusFile = Init_
    /\ clast = Call("new", None, 0, child, Ok, "none", "none")
    /\ nextDesc = 1
    /\ LvsInit
    /\ aborted = FALSE
    /\ RtInit

NextChild ==
    \/ \E parent_size \in 1 .. MaxSize, env \in OpenEnv : ChildOpen(parent_size, env)
    \/ ChildClose
    \/ \E reason \in Reason, saved \in BOOLEAN : ChildFault(reason, saved)
    \/ \E saved \in BOOLEAN : ChildOffline(saved)
    \/ \E parent_size \in 1 .. MaxSize, env \in OpenEnv, saved \in BOOLEAN :
          ChildOnline(parent_size, env, saved)
    \/ \E bdev_destroy \in {Ok, Err("NexusBdevError")} : ChildDestroy(bdev_destroy)
    \/ \E op \in {"write_at", "read_at"} : ChildIo(op)

\* the child: new, then any sequence of its operations
SpecChild == InitChild /\ [][NextChild]_vars

NextSnap ==
    \/ \E v \in Vols, params \in SnapParamsAll : CreateSnapshot(v, params)
    \/ \E v \in Vols, params \in SnapParamsAll, h \in 1 .. MaxReq :
          CreateSnapshotRemote(v, params, h)
    \/ \E r \in reqs, errno \in BackendErrnos : BackendComplete(r, errno)

\* snapshot creation with any parameters
SpecSnap == InitLvs /\ [][NextSnap]_vars

\* a uuid the caller generates for a new lvol: one no lvol has and no call in flight creates
Fresh(u) == u \notin bdevs /\ \A r \in reqs : r.new # u

\* the uuid the caller gives the next lvol of a kind: the first fresh one (the
\* uuids of a kind are interchangeable)
FirstFresh(ids) ==
    {ids[i] : i \in {k \in 1 .. Len(ids) : Fresh(ids[k]) /\ \A j \in 1 .. k - 1 : ~Fresh(ids[j])}}

NextLvs ==
    \/ \E v \in Vols, s \in FirstFresh(<<"s1", "s2">>) :
          CreateSnapshot(v, prepare_snap_config(v, s, "e1", "t1", s)[1])
    \/ \E s \in SnapIds, c \in FirstFresh(<<"c1", "c2">>) :
          CreateClone(s, prepare_clone_config(c, c, s))
    \/ \E s \in SnapIds : DestroySnapshot(s)
    \/ \E c \in CloneIds : DestroyClone(c)
    \/ DestroyPendingDiscardedSnapshot
    \/ \E r \in reqs, errno \in BackendErrnos : BackendComplete(r, errno)

\* snapshots, clones and their destruction, interleaved at the backend calls
SpecLvs == InitLvs /\ [][NextLvs]_vars


\* the xattrs a snapshot blob of an imported pool may carry: each of the six there
\* or not, the ParentId that of its volume or of another
ImportedXattrs ==
    {[k \in XattrKeys |->
         CASE k = "TxId" -> x[1]
           [] k = "EntityId" -> x[2]
           [] k = "ParentId" -> x[3]
           [] k = "SnapshotUuid" -> x[4]
           [] k = "SnapshotCreateTime" -> x[5]
           [] k = "DiscardedSnapshot" -> x[6]
           [] OTHER -> None] :
        x \in {None, "t1"} \X {None, "e1"} \X {None, "v1", "v2"} \X {None, "s2"}
                 \X {None, "now"} \X {None, "false"}}

\* a pool as imported: volume v1, its snapshot s1 as create_snapshot leaves it and
\* its later snapshot s2 with the xattrs that reached the blob
InitImport ==
    /\ child = new(MaxSize)
    /\ statusFile = Init_
    /\ clast = Call("new", None, 0, child, Ok, "none", "none")
    /\ nextDesc = 1
    /\ aborted = FALSE
    /\ RtInit
    /\ bdevs = {"v1", "s1", "s2"}
    /\ \E x \in ImportedXattrs :
          blob = [u \in Uuids |->
                     CASE u = "v1" -> [VolumeBlob(u) EXCEPT !.parent = "s2"]
                       [] u = "s2" -> [NoBlob EXCEPT !.is_snapshot = TRUE, !.xattrs = x,
                                                     !.name = "s2", !.parent = "s1",
                                                     !.origin = "v1", !.seq = 2]
                       [] u = "s1" -> [NoBlob EXCEPT
                                          !.is_snapshot = TRUE,
                                          !.xattrs = prepare_snapshot_xattrs(
                                              prepare_snap_config("v1", "s1", "e1", "t1", "s1")[1]).xattrs,
                                          !.name = "s1", !.origin = "v1", !.seq = 1]
                       [] OTHER -> NoBlob]
    /\ reqs = {}
    /\ sweep = NoSweep
    /\ ldone = [op |-> "none"]
    /\ nvmf = [h \in 1 .. MaxReq |-> NvmfUnused]

NextImport ==
    \/ \E b \in Vols : ListSnapshotBySourceUuid(b)
    \/ \E b \in SnapIds : ListSnapshotBySnapshotUuid(b)
    \/ \E parent_lvol \in {None} \cup Vols : ListAllSnapshots(parent_lvol)

\* the listings on an imported pool
SpecImport == InitImport /\ [][NextImport]_vars

\* complete params of a caller's choice for a snapshot of uuid s
SnapParamsComplete(s) ==
    {SnapshotParams(e, p, "t1", n, s, "now", d) :
        e \in {"e1", "t1"}, p \in {"v1", "v2"}, n \in {"n1", s}, d \in BOOLEAN}

NextConfig ==
    \/ \E v \in Vols, snap_name \in {"", "n1"}, entity_id \in {"", "e1"}, txn_id \in {"", "t1"},
          snap_uuid \in {""} \cup FirstFresh(<<"s1", "s2">>) :
          reqs = {} /\ PrepareSnapConfig(v, snap_name, entity_id, txn_id, snap_uuid)
    \/ \E v \in Vols :
          /\ reqs = {}
          /\ ldone.op = "prepare_snap_config" /\ ldone.lvol = v /\ ldone.config # <<>>
          /\ CreateSnapshot(v, ldone.config[1])
    \/ \E v \in Vols, s \in FirstFresh(<<"s1", "s2">>) :
          \E params \in SnapParamsComplete(s) : reqs = {} /\ CreateSnapshot(v, params)
    \/ \E r \in reqs, errno \in BackendErrnos : BackendComplete(r, errno)

\* the construction of snapshot params and the creation of snapshots with them
SpecConfig == InitLvs /\ [][NextConfig]_vars

NextRuntime == \E i \in 1 .. MaxCallers : RtStep(i)

\* callers of spawn_await, the tasks on the runtime and the primary reactor
SpecRuntime == InitLvs /\ [][NextRuntime]_vars

\* what a step of the runtime bridge leaves alone
RtRest ==
    UNCHANGED <<child, statusFile, clast, nextDesc, aborted, bdevs, blob, reqs, sweep,
                ldone, nvmf, cstrs>>

\* a worker of the runtime goes on with the task of caller i
WorkerRuns(i) == (WorkerPoll(i) \/ \E ok \in BOOLEAN : SpawnAtPrimary(i, ok)) /\ RtRest

\* the primary reactor goes on with what is ready on it for caller i: the
\* future posted, the caller whose receiver resolved
ReactorRuns(i) == (PrimaryRuns(i) \/ CallerResumes(i)) /\ RtRest

\* the runtime bridge with workers and a reactor that leave nothing ready
\* unrun; that f completes is not required
SpecRuntimeFair ==
    /\ InitLvs
    /\ [][NextRuntime]_vars
    /\ \A i \in 1 .. MaxCallers : WF_vars(WorkerRuns(i)) /\ WF_vars(ReactorRuns(i))

\* no lvol of the registry names u: uuids are not used a second time
Unnamed(u) ==
    \A b \in bdevs :
        /\ blob[b].origin # u
        /\ blob[b].clone_parent # u
        /\ blob[b].xattrs["ParentId"] # u
        /\ blob[b].xattrs["SourceUuid"] # u

NextCache ==
    \/ \E v \in Vols \cup CloneIds, s \in FirstFresh(<<"s1", "s2">>) :
          reqs = {} /\ Unnamed(s) /\ CreateSnapshot(v, prepare_snap_config(v, s, "e1", "t1", s)[1])
    \/ \E s \in SnapIds, c \in FirstFresh(<<"c1", "c2">>) :
          reqs = {} /\ Unnamed(c) /\ CreateClone(s, prepare_clone_config(c, c, s))
    \/ \E s \in SnapIds : reqs = {} /\ DestroySnapshot(s)
    \/ \E c \in CloneIds : reqs = {} /\ DestroyClone(c)
    \/ \E v \in Vols : reqs = {} /\ DestroyVolume(v)
    \/ \E b \in SnapIds, is_replica \in BOOLEAN :
          reqs = {} /\ ResetSnapshotTreeUsageCache(b, is_replica)
    \/ \E r \in reqs, errno \in BackendErrnos : BackendComplete(r, errno)

\* the reset of the usage caches on the graphs of snapshots and clones
SpecCache == InitLvs /\ [][NextCache]_vars

NextUsage ==
    \/ \E v \in Vols \cup CloneIds, s \in FirstFresh(<<"s1", "s2", "s3">>) :
          reqs = {} /\ Unnamed(s) /\ CreateSnapshot(v, prepare_snap_config(v, s, "e1", "t1", s)[1])
    \/ \E s \in SnapIds, c \in FirstFresh(<<"c1">>) :
          reqs = {} /\ Unnamed(c) /\ CreateClone(s, prepare_clone_config(c, c, s))
    \/ \E c \in CloneIds : reqs = {} /\ DestroyClone(c)
    \/ \E b \in Uuids, total \in 0 .. MaxTotal :
          \E usage \in [Concerned(b) -> UsageFigs] :
              reqs = {} /\ CalculateCloneSourceSnapUsage(b, total, usage)
    \/ \E r \in reqs, errno \in BackendErrnos : BackendComplete(r, errno)

\* the accounting of the usage of a clone's snapshots on the graphs of snapshots
\* and clones
SpecUsage == InitLvs /\ [][NextUsage]_vars

NextGraph ==
    \/ \E v \in Vols \cup CloneIds, s \in FirstFresh(<<"s1", "s2", "s3">>) :
          reqs = {} /\ CreateSnapshot(v, prepare_snap_config(v, s, "e1", "t1", s)[1])
    \/ \E s \in SnapIds, c \in FirstFresh(<<"c1">>) :
          reqs = {} /\ CreateClone(s, prepare_clone_config(c, c, s))
    \/ \E s \in SnapIds : reqs = {} /\ DestroySnapshot(s)
    \/ \E c \in CloneIds : reqs = {} /\ DestroyClone(c)
    \/ \E r \in reqs, errno \in BackendErrnos : BackendComplete(r, errno)

\* one caller that builds and takes down a graph of snapshots and clones, each
\* call awaited before the next
SpecGraph == InitLvs /\ [][NextGraph]_vars

\* the parameters of a snapshot with uuid s whose parent_id the caller chose
SnapParamsOf(s) ==
    {SnapshotParams("e1", p, "t1", s, s, "now", FALSE) : p \in {None, "v1", "v2"}}

NextParams ==
    \/ \E v \in Vols \cup CloneIds, s \in FirstFresh(<<"s1", "s2">>) :
          \E params \in SnapParamsOf(s) : reqs = {} /\ CreateSnapshot(v, params)
    \/ \E s \in SnapIds, params \in CloneParamsAll : reqs = {} /\ CreateClone(s, params)
    \/ \E r \in reqs, errno \in BackendErrnos : BackendComplete(r, errno)

\* one caller that creates snapshots and clones with parameters of its choice
SpecParams == InitLvs /\ [][NextParams]_vars

(***************************************************************************)
(*                              The claims                                 *)
(***************************************************************************)

\* C1 (SpecLvs): a snapshot is never destroyed while a live clone of it exists:
\* in no step does a snapshot with a clone in the registry leave the registry.
C1_SnapshotPinnedByClone ==
    [][\A s \in bdevs \ bdevs' :
          is_snapshot(s) => list_clones_by_snapshot_uuid(s) = {}]_vars

\* C2 (SpecChild): the child is accessible, and get_dev does not answer
\* ChildInaccessible, exactly in the states Open and Faulted(OutOfSync).
C2_AccessibleIffOpenOrOutOfSync ==
    /\ is_accessible(child) <=> child.state \in {Open, Faulted("OutOfSync")}
    /\ get_dev(child).tag # "ChildInaccessible" <=> child.state \in {Open, Faulted("OutOfSync")}
    /\ child.state \in ChildState

C2_Witness == child.state = Faulted("OutOfSync") /\ get_dev(child) = Ok

\* a snapshot the sweep has to destroy, in the words of the claim: a snapshot in
\* the registry whose DiscardedSnapshot xattr is "true" and that no lvol of the
\* registry is a clone of
Eligible(s) ==
    /\ s \in bdevs
    /\ blob[s].is_snapshot
    /\ blob[s].xattrs["DiscardedSnapshot"] = "true"
    /\ ~\E c \in bdevs : blob[c].clone_parent = s

\* C3 as stated (SpecLvs): destroy_snapshot with N >= 1 live clones at the call
\* sets DiscardedSnapshot to "true", returns success and leaves the blob; with
\* no live clone it destroys the blob and does not write the flag.
C3_DestroySnapshotAsStated ==
    ldone.op = "destroy_snapshot" =>
        IF ldone.nclones >= 1
        THEN /\ ldone.backend = "set_xattr"
             /\ ldone.res.tag = "Ok"
             /\ ldone.discarded_after = "true"
             /\ ldone.present_after
        ELSE /\ ldone.backend = "destroy"
             /\ ~ldone.present_after

\* C3 amended (SpecLvs): with N >= 1 live clones at the call destroy_snapshot
\* makes one backend call, the write of DiscardedSnapshot = "true", and no destroy;
\* when the write succeeds it returns success with the flag set and the blob
\* present. With no live clone it makes one backend call, the destroy, and no
\* write of the flag; when the destroy succeeds it returns success and the blob is
\* gone. When the backend call fails, the call returns the error.
C3_DestroySnapshot ==
    ldone.op = "destroy_snapshot" =>
        /\ ldone.res.tag = (IF ldone.errno = 0 THEN "Ok" ELSE "Err")
        /\ IF ldone.nclones >= 1
           THEN /\ ldone.backend = "set_xattr"
                /\ ldone.errno = 0 => ldone.discarded_after = "true" /\ ldone.present_after
           ELSE /\ ldone.backend = "destroy"
                /\ ldone.errno = 0 => ~ldone.present_after

C3_Witness ==
    /\ ldone.op = "destroy_snapshot"
    /\ ldone.nclones = 2
    /\ ldone.res.tag = "Ok"
    /\ ldone.discarded_after = "true"
    /\ ldone.present_after

\* C4 (SpecLvs): a sweep collects exactly the snapshots that are discarded and
\* without live clone when it is invoked and submits the destroy of each; when
\* nothing else runs beside it, those whose destroy succeeded are gone at its
\* return, and right after a sweep without failure no such snapshot is left, so
\* that a second sweep collects nothing, changes nothing and returns without error.
C4_SweepStep ==
    /\ (~sweep.active /\ sweep'.active) =>
          /\ sweep'.collected = {s \in Uuids : Eligible(s)}
          /\ \A s \in sweep'.collected : \E r \in reqs' \ reqs : r.op = "destroy" /\ r.lvol = s
    /\ (~sweep.active /\ ~sweep'.active /\ ldone'.op = "sweep" /\ ldone'.collected = {}
          /\ (\/ ldone.op # "sweep"
              \/ ldone.collected # {}
              \/ ldone.alone # ldone'.alone
              \/ ldone.after # ldone'.after)) =>
          /\ {s \in Uuids : Eligible(s)} = {}
          /\ UNCHANGED <<bdevs, blob, reqs>>
          /\ ldone'.res.tag = "Ok"

C4_SweepReturn ==
    ldone.op = "sweep" =>
        /\ ldone.alone => \A s \in ldone.collected \ ldone.failed : s \notin ldone.after
        /\ (ldone.alone /\ ldone.failed = {} /\ reqs = {}) =>
              /\ {s \in Uuids : Eligible(s)} = {}
              /\ snap_list = {}

C4_SweepDestroysAndIsIdempotent == [][C4_SweepStep]_vars /\ []C4_SweepReturn

C4_Witness ==
    /\ ldone.op = "sweep"
    /\ ldone.alone
    /\ Cardinality(ldone.collected) = 2
    /\ ldone.failed = {}
    /\ reqs = {}
    /\ bdevs \cap SnapIds = {}

\* C5 (SpecChild): a child that is not accessible holds no I/O handle, and
\* write_at and read_at on it return an error without submitting the I/O.
C5_NoIoWhenInaccessible ==
    /\ ~is_accessible(child) => child.bdev_handle = 0
    /\ (clast.op \in {"write_at", "read_at"} /\ ~is_accessible(clast.pre)) =>
          clast.io = "InvalidDescriptor"

\* C6 as stated (SpecChild): open(parent_size) on a child whose device is smaller
\* than parent_size, in whatever state, sets ConfigInvalid, returns ChildTooSmall
\* with both sizes and acquires no descriptor or handle.
C6_OpenTooSmallAnyState ==
    (clast.op = "open" /\ clast.pre.bdev # 0 /\ clast.pre.bdev < clast.parent_size) =>
        /\ child.state = ConfigInvalid
        /\ clast.res = ChildTooSmall(clast.pre.bdev, clast.parent_size)
        /\ child.desc = clast.pre.desc
        /\ child.bdev_handle = clast.pre.bdev_handle

\* C6 amended (SpecChild): the same for a child that is not Faulted.
C6_OpenTooSmall ==
    (clast.op = "open" /\ clast.pre.bdev # 0 /\ clast.pre.bdev < clast.parent_size
        /\ clast.pre.state.tag # "Faulted") =>
        /\ child.state = ConfigInvalid
        /\ clast.res = ChildTooSmall(clast.pre.bdev, clast.parent_size)
        /\ child.desc = clast.pre.desc
        /\ child.bdev_handle = clast.pre.bdev_handle

C6_Witness ==
    /\ clast.op = "open"
    /\ clast.pre.state = Closed
    /\ clast.res.tag = "ChildTooSmall"
    /\ clast.res.child_size < clast.res.parent_size
    /\ child.state = ConfigInvalid

\* C7 (SpecChild): fault(OutOfSync) sets Faulted(OutOfSync) and leaves the
\* descriptor and the handle as they were, so that an open child stays
\* accessible with both; fault(reason) with another reason releases both, sets
\* Faulted(reason), and the child is not accessible.
C7_Fault ==
    clast.op = "fault" =>
        IF clast.reason = "OutOfSync"
        THEN /\ child.state = Faulted("OutOfSync")
             /\ child.desc = clast.pre.desc
             /\ child.bdev_handle = clast.pre.bdev_handle
             /\ is_accessible(child)
             /\ clast.pre.state = Open => child.desc # 0 /\ child.bdev_handle # 0
        ELSE /\ child.state = Faulted(clast.reason)
             /\ child.desc = 0
             /\ child.bdev_handle = 0
             /\ ~is_accessible(child)
             /\ get_dev(child).tag = "ChildInaccessible"

C7_Witness ==
    /\ clast.op = "fault"
    /\ clast.reason = "IoError"
    /\ clast.pre.state = Faulted("OutOfSync")
    /\ clast.pre.bdev_handle # 0
    /\ child.bdev_handle = 0

Mandatory == {"entity_id", "parent_id", "txn_id", "name", "snapshot_uuid", "create_time"}

\* C9 (SpecSnap): create_snapshot and create_snapshot_remote with a mandatory
\* field absent fail with SnapshotConfigFailed and a message for the field,
\* without the backend call, without an event and without a panic.
C9_MissingFieldIsConfigError ==
    (ldone.op \in {"create_snapshot", "create_snapshot_remote"}
        /\ \E f \in Mandatory : ldone.params[f] = None) =>
        /\ ldone.res.tag = "SnapshotConfigFailed"
        /\ ldone.res.msg # None
        /\ ~ldone.submitted
        /\ ~ldone.event
        /\ ~aborted

\* C10 (SpecSnap): once create_snapshot_remote has returned and no backend call
\* is left to complete its request, exactly one of complete and complete_error
\* has been invoked on the request.
C10_RemoteRequestCompletedOnce ==
    ~aborted =>
        \A h \in 1 .. MaxReq :
            (nvmf[h].used /\ ~\E r \in reqs : r.handle = h) =>
                nvmf[h].complete + nvmf[h].complete_error = 1

\* C11 (SpecParams): the SourceUuid xattr of every clone is the uuid of the snapshot
\* it was created on by create_clone, and the ParentId xattr of every snapshot is
\* the uuid of the lvol it was created on by create_snapshot.
C11_XattrsNameTheSource ==
    \A b \in bdevs :
        /\ blob[b].clone_parent # None => blob[b].xattrs["SourceUuid"] = blob[b].clone_parent
        /\ blob[b].is_snapshot => blob[b].xattrs["ParentId"] = blob[b].origin

\* the uuids of the snapshots of a listing, in its order
ListedUuids(list) == [i \in 1 .. Len(list) |-> list[i].snapshot_lvol]

\* the snapshots taken of lvol v that are in the registry
SnapshotsOf(v) == {s \in bdevs : blob[s].is_snapshot /\ blob[s].origin = v}

\* the snapshots of a set, the most recently created first
RECURSIVE MostRecentFirst(_)
MostRecentFirst(S) ==
    IF S = {} THEN <<>>
    ELSE LET last == CHOOSE s \in S : \A t \in S : blob[t].seq <= blob[s].seq
         IN  <<last>> \o MostRecentFirst(S \ {last})

\* C12 (SpecGraph): list_snapshot_by_source_uuid(V) returns all the snapshots
\* created of V that are in the registry, the most recently created first.
C12_ListMostRecentFirst ==
    \A v \in Vols \cap bdevs :
        ListedUuids(list_snapshot_by_source_uuid(v)) = MostRecentFirst(SnapshotsOf(v))

C12_Witness ==
    /\ ListedUuids(list_snapshot_by_source_uuid("v1")) = <<"s3", "s2", "s1">>
    /\ ldone.op = "create_snapshot" /\ ldone.res = LRes("Ok", "s3", 0)

\* C13 (SpecGraph): list_snapshot_by_source_uuid(X) of a volume or clone X holds
\* only snapshots taken of X, each once; for a clone without snapshots of its own
\* it is empty.
C13_ListOnlyOwnSnapshots ==
    \A x \in (Vols \cup CloneIds) \cap bdevs :
        LET list == list_snapshot_by_source_uuid(x)
        IN  /\ \A i \in 1 .. Len(list) :
                  /\ list[i].snapshot_lvol \in SnapshotsOf(x)
                  /\ list[i].source_uuid = x
                  /\ \A j \in 1 .. Len(list) : list[j].snapshot_lvol = list[i].snapshot_lvol => i = j
            /\ SnapshotsOf(x) = {} => list = <<>>

\* a clone with a snapshot of its own, made of a snapshot of a volume that has two
C13_Witness ==
    /\ {"v1", "c1"} \subseteq bdevs
    /\ blob["c1"].parent \in SnapshotsOf("c1")
    /\ blob["c1"].clone_parent \in SnapshotsOf("v1")
    /\ Cardinality(SnapshotsOf("v1")) = 2
    /\ Len(list_snapshot_by_source_uuid("c1")) = 1

\* the six snapshot xattrs are on the blob
AllSix(b) == \A i \in 1 .. Len(SnapshotXattrs) : blob[b].xattrs[SnapshotXattrs[i]] # None

\* C14 (SpecImport): a listing by source volume returns a descriptor for every
\* snapshot of the volume, a listing by snapshot uuid one for the snapshot, a
\* list-all one for every snapshot of the registry; the descriptor is valid
\* exactly when the six snapshot xattrs are on the blob.
C14_DescriptorForEverySnapshot ==
    /\ ldone.op = "list_snapshot_by_source_uuid" =>
          /\ \A s \in SnapshotsOf(ldone.lvol) :
                \E i \in 1 .. Len(ldone.list) : ldone.list[i].snapshot_lvol = s
          /\ \A i \in 1 .. Len(ldone.list) :
                ldone.list[i].valid_snapshot <=> AllSix(ldone.list[i].snapshot_lvol)
    /\ ldone.op = "list_snapshot_by_snapshot_uuid" =>
          /\ Len(ldone.list) = 1
          /\ ldone.list[1].snapshot_lvol = ldone.lvol
          /\ ldone.list[1].valid_snapshot <=> AllSix(ldone.lvol)
    /\ (ldone.op = "list_all_snapshots" /\ ldone.lvol = None) =>
          /\ {d.snapshot_lvol : d \in ldone.all} = {b \in bdevs : blob[b].is_snapshot}
          /\ \A d \in ldone.all : d.valid_snapshot <=> AllSix(d.snapshot_lvol)

\* C15 (SpecImport): list_all_snapshots(Some(P)) returns the snapshots whose
\* ParentId xattr is the uuid of P and no other (none without ParentId), and the
\* parent uuid of every descriptor is the ParentId on the blob.
C15_ListAllOfParent ==
    (ldone.op = "list_all_snapshots" /\ ldone.lvol # None) =>
        /\ {d.snapshot_lvol : d \in ldone.all}
              = {b \in bdevs : blob[b].is_snapshot /\ blob[b].xattrs["ParentId"] = ldone.lvol}
        /\ \A d \in ldone.all : d.source_uuid = blob[d.snapshot_lvol].xattrs["ParentId"]

\* C16 (SpecChild): online(parent_size) on a Closed child whose reopen succeeds
\* leaves the child Faulted(OutOfSync) with descriptor and handle, accessible;
\* no online that returns leaves the child Open.
C16_OnlineOutOfSync ==
    /\ (clast.op = "online" /\ clast.pre.state = Closed /\ clast.res = Ok) =>
          /\ child.state = Faulted("OutOfSync")
          /\ child.desc # 0
          /\ child.bdev_handle # 0
          /\ is_accessible(child)
          /\ get_dev(child) = Ok
    /\ (clast.op = "online" /\ clast.res # Panic) => child.state # Open

C16_Witness ==
    /\ clast.op = "online"
    /\ clast.pre.state = Closed
    /\ clast.pre.desc = 0
    /\ clast.res = Ok
    /\ child.desc # 0
    /\ child.state = Faulted("OutOfSync")

\* C17 (SpecChild): bdev_destroy is called by a destroy of a Closed child and by
\* nothing else; a destroy of a child in another state fails its assertion and
\* calls no bdev_destroy.
C17_DestroyOnlyClosed ==
    /\ clast.io = "bdev_destroy" => clast.op = "destroy" /\ clast.pre.state = Closed
    /\ (clast.op = "destroy" /\ clast.pre.state # Closed) =>
          /\ clast.res = Panic
          /\ clast.io = "none"
          /\ aborted

C17_Witness ==
    /\ clast.op = "destroy"
    /\ clast.io = "bdev_destroy"
    /\ clast.res = Ok
    /\ child.state = Closed
    /\ nextDesc > 1

\* C18 (SpecChild): a Closed child has neither descriptor nor handle, and close
\* and offline leave the child Closed with both released.
C18_ClosedHasNoDescriptor ==
    /\ child.state = Closed => child.desc = 0 /\ child.bdev_handle = 0
    /\ clast.op \in {"close", "offline"} =>
          child.state = Closed /\ child.desc = 0 /\ child.bdev_handle = 0

C18_Witness ==
    /\ clast.op = "close"
    /\ clast.pre.state = Open
    /\ clast.pre.desc # 0
    /\ clast.pre.bdev_handle # 0
    /\ child.state = Closed
    /\ child.desc = 0

\* C19 (SpecChild): open(parent_size) on a child Faulted for whatever reason
\* returns ChildFaulted and leaves the state with its reason, the descriptor,
\* the handle and the error ring as they were.
C19_OpenFaulted ==
    (clast.op = "open" /\ clast.pre.state.tag = "Faulted") =>
        /\ clast.res = Err("ChildFaulted")
        /\ child.state = clast.pre.state
        /\ child.desc = clast.pre.desc
        /\ child.bdev_handle = clast.pre.bdev_handle
        /\ child.err_store = clast.pre.err_store
        /\ ~aborted

C19_Witness ==
    /\ clast.op = "open"
    /\ clast.pre.state = Faulted("OutOfSync")
    /\ clast.pre.desc # 0
    /\ clast.pre.err_store
    /\ clast.res = Err("ChildFaulted")
    /\ child = clast.pre

\* the error create_snapshot and create_clone return for a failure of the backend
CreateError(caller) ==
    IF caller = "create_snapshot" THEN "SnapshotCreate" ELSE "SnapshotCloneCreate"

\* a step in which the backend completes the creation r of an awaiting
\* create_snapshot or create_clone
CreationCompletes(r) ==
    /\ r \in reqs /\ r \notin reqs'
    /\ r.caller \in {"create_snapshot", "create_clone"}

\* C20 (SpecParams): when the backend completes a creation with a negative errno
\* e, create_snapshot returns SnapshotCreate and create_clone SnapshotCloneCreate
\* with the errno -e, no lvol is there that was not before and nothing is
\* submitted again; when it completes with 0, the call returns the lvol the
\* backend created.
C20_CreateCompletion ==
    [][\A r \in reqs :
          CreationCompletes(r) =>
              /\ reqs' = reqs \ {r}
              /\ ldone'.op = r.caller
              /\ IF r.new \in bdevs' \ bdevs
                 THEN /\ ldone'.res = LRes("Ok", r.new, 0)
                      /\ bdevs' = bdevs \cup {r.new}
                 ELSE /\ ldone'.res.tag = CreateError(r.caller)
                      /\ \E e \in BackendErrnos : e < 0 /\ ldone'.res.errno = -e
                      /\ bdevs' = bdevs
                      /\ blob' = blob]_vars

C20_Witness ==
    /\ ldone.op = "create_clone"
    /\ ldone.submitted
    /\ ldone.res = LRes("SnapshotCloneCreate", "c1", 5)
    /\ "c1" \notin bdevs
    /\ reqs = {}

\* C21 (SpecSnap): when create_snapshot, create_clone or create_snapshot_remote
\* has emitted the Create event, the backend has completed the creation with
\* success: the new lvol is in the registry.
C21_CreateEventOnlyOnSuccess ==
    /\ (ldone.op \in {"create_snapshot", "create_clone"} /\ ldone.event) =>
          ldone.res.tag = "Ok" /\ ldone.res.msg \in bdevs
    /\ (ldone.op = "create_snapshot_remote" /\ ldone.event) =>
          ldone.params.snapshot_uuid \in bdevs

C25_ConfigNoneOnEmptyInput ==
    ldone.op = "prepare_snap_config" =>
        IF \E k \in DOMAIN ldone.args : ldone.args[k] = ""
        THEN ldone.config = <<>>
        ELSE ldone.config =
                 Some(SnapshotParams(ldone.args.entity_id, ldone.lvol, ldone.args.txn_id,
                                     ldone.args.snap_name, ldone.args.snap_uuid, "now", FALSE))

\* C23 as stated (SpecRuntime): a caller of spawn_await(f) is resumed only when
\* f has run to completion and its completion has been sent by the future
\* posted to the primary reactor.
C23_ResumedAfterReactorSawCompletion ==
    \A i \in 1 .. MaxCallers :
        rt[i].caller = "resumed" => rt[i].at_resume = "done" /\ rt[i].chan = "sent"

\* C23 amended (SpecRuntime): a caller of spawn_await(f) is never resumed while f
\* is only spawned or still running; it is resumed after f completed and the
\* future posted to the primary reactor sent the completion, or after the sender
\* was dropped because spawn_at_primary failed or f panicked.
C23_ResumedAfterTaskEnded ==
    \A i \in 1 .. MaxCallers :
        /\ rt[i].caller = "resumed" =>
              /\ rt[i].at_resume \in {"done", "unposted", "panicked"}
              /\ rt[i].at_resume = "done" <=> rt[i].chan = "sent"
        /\ (rt[i].caller = "awaiting" /\ rt[i].task \in {"spawned", "running", "f_done", "posted"})
              => rt[i].chan = "open"

C23_Witness ==
    /\ rt[1].caller = "resumed" /\ rt[1].at_resume = "done" /\ rt[1].chan = "sent"
    /\ rt[2].caller = "resumed" /\ rt[2].at_resume = "unposted"

\* C24 (SpecSnap): while the backend call of a snapshot or clone creation is in
\* flight, the vector of xattr buffers of that creation is alive.
C24_BuffersOutliveCreation ==
    \A r \in reqs : IsCreate(r) => r.new \in cstrs

\* C26 (SpecLvs): a sweep returns without error whether or not destroys of its
\* snapshots failed; when nothing else ran beside it, every collected snapshot
\* whose own destroy did not fail is gone at its return, and every one whose
\* destroy failed is still there and is collected again by the next sweep.
C26_SweepSurvivesFailure ==
    ldone.op = "sweep" =>
        /\ ldone.res.tag = "Ok"
        /\ ldone.failed \subseteq ldone.collected
        /\ \A r \in reqs : r.caller = "sweep" => sweep.active
        /\ ldone.alone =>
              /\ (ldone.collected \ ldone.failed) \cap ldone.after = {}
              /\ ldone.failed \subseteq ldone.after
        /\ (ldone.alone /\ ~sweep.active) =>
              \A s \in ldone.failed : Eligible(s) /\ s \in snap_list

C26_Witness ==
    /\ ldone.op = "sweep"
    /\ ldone.alone
    /\ ~sweep.active
    /\ Cardinality(ldone.collected) = 2
    /\ Cardinality(ldone.failed) = 1
    /\ Cardinality(ldone.after \cap SnapIds) = 1
    /\ ldone.res.tag = "Ok"

\* the lvols of a Vec
Elems(list) == {list[i] : i \in 1 .. Len(list)}

\* C27 (SpecCache): reset_snapshot_tree_usage_cache on a snapshot S whose ParentId
\* names an lvol P of the registry resets the cache of P first, then that of
\* every snapshot of P, S among them, and of every clone of such a snapshot;
\* it resets nothing that is not in the registry.
C27_ResetTreeOfParent ==
    (ldone.op = "reset_snapshot_tree_usage_cache" /\ ldone.branch = "parent") =>
        /\ ldone.resets[1] = ldone.parent
        /\ ldone.lvol \in SnapshotsOf(ldone.parent)
        /\ \A s \in SnapshotsOf(ldone.parent) :
              /\ s \in Elems(ldone.resets)
              /\ \A c \in bdevs : blob[c].clone_parent = s => c \in Elems(ldone.resets)
        /\ Elems(ldone.resets) \subseteq bdevs

C27_Witness ==
    /\ ldone.op = "reset_snapshot_tree_usage_cache"
    /\ ldone.branch = "parent"
    /\ ldone.lvol = "s1"
    /\ ldone.parent = "v1"
    /\ SnapshotsOf("v1") = {"s1", "s2"}
    /\ blob["c1"].clone_parent = "s1"
    /\ blob["c2"].clone_parent = "s2"
    /\ Elems(ldone.resets) = {"v1", "s1", "s2", "c1", "c2"}

\* the snapshots whose ParentId xattr names p
SnapshotsNaming(p) == {s \in bdevs : blob[s].is_snapshot /\ blob[s].xattrs["ParentId"] = p}

\* the lvols of S with, n times over, their clones and the snapshots that name them
RECURSIVE TreeOf(_, _)
TreeOf(S, n) ==
    IF n = 0 THEN S
    ELSE TreeOf(S \cup {c \in bdevs : blob[c].clone_parent \in S}
                  \cup {s \in bdevs : blob[s].is_snapshot /\ blob[s].xattrs["ParentId"] \in S},
                n - 1)

\* C28 (SpecCache): when the lvol P that the ParentId of snapshot S names is not
\* in the registry, the wildcard reset starts with the snapshots whose own
\* ParentId is the uuid of P and with no other, and resets only the caches of
\* those, of their clones and, in turn, of the snapshots of those clones.
C28_WildcardOnlyTreeOfParent ==
    (ldone.op = "reset_snapshot_tree_usage_cache" /\ ldone.branch = "wildcard") =>
        /\ ldone.start = SnapshotsNaming(ldone.parent)
        /\ Elems(ldone.resets) \subseteq TreeOf(SnapshotsNaming(ldone.parent), Cardinality(Uuids))

\* C29 (SpecCache): the wildcard reset comes to its end, and it resets the cache
\* of no lvol twice.
C29_WildcardVisitsOnce ==
    (ldone.op = "reset_snapshot_tree_usage_cache" /\ ldone.branch = "wildcard") =>
        /\ Unfinished \notin Elems(ldone.resets)
        /\ \A i, j \in 1 .. Len(ldone.resets) : ldone.resets[i] = ldone.resets[j] => i = j

\* C30 (SpecUsage), as stated: calculate_clone_source_snap_usage on X returns
\* total_ancestor - (C.allocated_snapshots + C.allocated), with the usage
\* figures of C itself, when X is a snapshot whose parent is a clone C; the sum
\* of allocated_bytes over the snapshots whose parent is X when X is a clone;
\* None in every other case.
C30_UsageWithFiguresOfClone ==
    ldone.op = "calculate_clone_source_snap_usage" =>
        /\ ldone.case = "snapshot_of_clone" =>
              ldone.res = u64_sub(ldone.total,
                                  ldone.usage[ldone.clone].allocated_bytes_snapshots
                                      + ldone.usage[ldone.clone].allocated_bytes)
        /\ ldone.case = "clone" =>
              ldone.res = URes("Some", SumAllocated(ldone.snaps, ldone.usage))
        /\ ldone.case = "other" => ldone.res = URes("None", 0)

\* C30 (SpecUsage), amended: when X is a snapshot whose parent is a clone C, the
\* figures taken off total_ancestor are those of the snapshot C is a clone of
\* (in u64: the subtraction overflows when they come to more than
\* total_ancestor); the other two cases are as stated.
C30_UsageWithFiguresOfSource ==
    ldone.op = "calculate_clone_source_snap_usage" =>
        /\ ldone.case = "snapshot_of_clone" =>
              ldone.res = u64_sub(ldone.total,
                                  ldone.usage[ldone.source].allocated_bytes_snapshots
                                      + ldone.usage[ldone.source].allocated_bytes)
        /\ ldone.case = "clone" =>
              ldone.res = URes("Some", SumAllocated(ldone.snaps, ldone.usage))
        /\ ldone.case = "other" => ldone.res = URes("None", 0)

\* a snapshot of a clone whose figures differ from those of the clone's source,
\* and a result was returned
C30_Witness ==
    /\ ldone.op = "calculate_clone_source_snap_usage"
    /\ ldone.case = "snapshot_of_clone"
    /\ ldone.usage[ldone.clone] # ldone.usage[ldone.source]
    /\ ldone.res.tag = "Some" /\ ldone.res.v > 0

\* C31 (SpecChild): a child is opened only from Init or Closed; open() on a child
\* that is already Open, or in ConfigInvalid, acquires no second descriptor or
\* handle and does not replace the ones the child holds.
C31_OpenOnlyFromInitOrClosed ==
    clast.op = "open" =>
        /\ clast.res = Ok => clast.pre.state \in {Init_, Closed}
        /\ clast.pre.state \in {Open, ConfigInvalid} =>
              /\ child.desc = clast.pre.desc
              /\ child.bdev_handle = clast.pre.bdev_handle

\* C32 (SpecChild): for a child in Faulted(r) with r other than OutOfSync, no
\* call of open() or online() makes it accessible, and an online() that returns
\* an error leaves the recorded fault reason as it was.
C32_FaultedNotReopened ==
    (/\ clast.op \in {"open", "online"}
     /\ clast.pre.state.tag = "Faulted"
     /\ clast.pre.state.reason # "OutOfSync") =>
        /\ ~is_accessible(child)
        /\ (clast.op = "online" /\ clast.res # Ok) => state(child) = clast.pre.state

\* C33 (SpecChild): a child with a backing device that is accessible (Open or
\* Faulted(OutOfSync)) holds a descriptor and an I/O handle, and get_dev does
\* not return ChildInvalid, after any sequence of the child's operations.
C33_AccessibleHoldsDescriptor ==
    (child.bdev # 0 /\ is_accessible(child)) =>
        /\ child.desc # 0
        /\ child.bdev_handle # 0
        /\ get_dev(child) # Err("ChildInvalid")

\* C34 (SpecRuntimeFair): once f has completed, the caller of spawn_await(f) is
\* eventually resumed, also when the completion could not be posted to the
\* primary reactor: the sender is dropped and the caller resumes on the
\* canceled channel; the run does not stop on the way.
C34_EventuallyResumed ==
    \A i \in 1 .. MaxCallers :
        /\ (rt[i].task = "f_done") ~> (rt[i].caller = "resumed")
        /\ (rt[i].task = "unposted") ~>
               (rt[i].caller = "resumed" /\ rt[i].at_resume = "unposted"
                    /\ rt[i].chan = "canceled")

\* the completion could not be posted and the caller was resumed
C34_Witness ==
    \E i \in 1 .. MaxCallers :
        /\ rt[i].caller = "resumed" /\ rt[i].at_resume = "unposted"
        /\ rt[i].chan = "canceled"

\* C35 (SpecUsage): in calculate_clone_source_snap_usage on a snapshot of a
\* clone, the figures taken off total_ancestor_snap_size never come to more
\* than it: the u64 subtraction does not go below zero, and what is returned is
\* the difference, never a wrapped value.
C35_NoUnderflow ==
    (ldone.op = "calculate_clone_source_snap_usage" /\ ldone.case = "snapshot_of_clone") =>
        /\ ldone.usage[ldone.source].allocated_bytes_snapshots
               + ldone.usage[ldone.source].allocated_bytes <= ldone.total
        /\ ldone.res.tag = "Some"

==========================================================================
